---- MODULE Spec2Model ----
(***************************************************************************)
(* Model of package list (src/list/list.go): a generic doubly-linked list  *)
(* built as a ring around a sentinel ("root") element.                     *)
(*                                                                         *)
(* The heap is an arena of nodes.  Node l (1..NumLists) is the root        *)
(* element embedded in List l; nodes NumLists+1 .. NumLists+MaxElems are   *)
(* the Element values allocated by insertValueAfter, in allocation order.  *)
(* Nil (0) is the nil pointer.  A nil dereference is a Go run-time panic:  *)
(* the statements executed before it keep their effect and the program     *)
(* stops.                                                                  *)
(***************************************************************************)
EXTENDS Integers, Sequences, FiniteSets, TLC

NumLists == 2
MaxElems == 3
MaxVal   == 1

\* Bounds of SpecBulk, the specification of the bulk copies: MaxPushed
\* elements are pushed one by one and PushBackList / PushFrontList may fill
\* the arena up to MaxBulk elements.
MaxPushed == 3
MaxBulk   == 6

\* The arena holds the elements of either specification.
ArenaSize == IF MaxBulk > MaxElems THEN MaxBulk ELSE MaxElems

Nil    == 0
Lists  == 1..NumLists
Elems  == (NumLists + 1)..(NumLists + ArenaSize)
Nodes  == Lists \cup Elems
Values == 1..MaxVal
\* The zero value of T, held by every root element and by unallocated nodes.
ZeroValue == 0

VARIABLES
    prev,      \* Element.prev, per node
    next,      \* Element.next, per node
    list,      \* Element.list, per node (Nil or the owning List)
    Value,     \* Element.Value, per node
    size,      \* List.size, per list
    nalloc,    \* number of Element values allocated so far
    panicked,  \* TRUE once a nil dereference has stopped the program
    op,        \* the method called last
    path,      \* how that call ended: "guard" (membership guard returned
               \* early), "noop" (nothing to move), "done" or "panic"
    ret,       \* what the last call returned (Nil for "none" / no result)
    discarded, \* elements that were still owned by a list when Init reset it
    misused    \* TRUE once a discarded element handle was passed to a call

vars == <<prev, next, list, Value, size, nalloc, panicked, op, path, ret,
          discarded, misused>>

\* &l.root
Root(l) == l

\* The heap as one value, so that a method body is a chain of statements.
H == [prev |-> prev, next |-> next, list |-> list, Value |-> Value,
      size |-> size, nalloc |-> nalloc, panic |-> panicked, path |-> path,
      ret |-> ret]

\* A nil pointer dereference: the method stops here.
Panic(h) == [h EXCEPT !.panic = TRUE, !.path = "panic", !.ret = Nil]

Allocated(h) == (NumLists + 1)..(NumLists + h.nalloc)

----------------------------------------------------------------------------
(* Element methods *)

ElementNext(h, e) ==
    IF h.list[e] = Nil THEN Nil
    ELSE IF h.next[e] = Root(h.list[e]) THEN Nil
    ELSE h.next[e]

ElementPrev(h, e) ==
    IF h.list[e] = Nil THEN Nil
    ELSE IF h.prev[e] = Root(h.list[e]) THEN Nil
    ELSE h.prev[e]

----------------------------------------------------------------------------
(* List methods.  Each takes the heap at entry and gives the heap at       *)
(* return, with the returned value in ret and the way it ended in path.    *)

Back(h, l) == IF h.size[l] = 0 THEN Nil ELSE h.prev[Root(l)]

\* Front without the "l.size == 0" test.
Front_Unchecked(h, l) == h.next[Root(l)]

Front(h, l) == IF h.size[l] = 0 THEN Nil ELSE h.next[Root(l)]

ListLen(h, l) == h.size[l]

\* Init that forgets "l.root.prev = &l.root".
ListInit_NoPrev(h, l) ==
    [h EXCEPT !.next[Root(l)] = Root(l),
              !.size[l] = 0,
              !.path = "done",
              !.ret = l]

\* Init that also clears the back-reference of every element of l.
ListInit_Detach(h, l) ==
    [h EXCEPT !.prev[Root(l)] = Root(l),
              !.next[Root(l)] = Root(l),
              !.list = [n \in Nodes |-> IF h.list[n] = l THEN Nil ELSE h.list[n]],
              !.size[l] = 0,
              !.path = "done",
              !.ret = l]

\* Init that forgets "l.size = 0".
ListInit_KeepSize(h, l) ==
    [h EXCEPT !.prev[Root(l)] = Root(l),
              !.next[Root(l)] = Root(l),
              !.path = "done",
              !.ret = l]

ListInit(h, l) ==
    [h EXCEPT !.prev[Root(l)] = Root(l),
              !.next[Root(l)] = Root(l),
              !.size[l] = 0,
              !.path = "done",
              !.ret = l]

\* lazyInit that leaves the zero value as it is.
lazyInit_Never(h, l) == h

lazyInit(h, l) == IF h.next[Root(l)] = Nil THEN ListInit(h, l) ELSE h

\* insertValueAfter that builds the element without "list: l".
insertValueAfter_NoOwner(h, l, v, mark) ==
    LET e  == NumLists + h.nalloc + 1
        h1 == [h EXCEPT !.nalloc = @ + 1, !.prev[e] = mark,
                        !.next[e] = h.next[mark], !.Value[e] = v]
        h2 == [h1 EXCEPT !.prev[h1.next[mark]] = e]
        h3 == [h2 EXCEPT !.next[mark] = e]
    IN  [h3 EXCEPT !.size[l] = @ + 1, !.path = "done", !.ret = e]

insertValueAfter(h, l, v, mark) ==
    IF h.panic THEN h
    ELSE IF mark = Nil THEN Panic(h)                     \* mark.next
    ELSE
      LET e  == NumLists + h.nalloc + 1
          h1 == [h EXCEPT !.nalloc = @ + 1, !.prev[e] = mark,
                          !.next[e] = h.next[mark], !.Value[e] = v, !.list[e] = l]
      IN  IF h1.next[mark] = Nil THEN Panic(h1)         \* mark.next.prev = &e
          ELSE
            LET h2 == [h1 EXCEPT !.prev[h1.next[mark]] = e]
                h3 == [h2 EXCEPT !.next[mark] = e]
            IN  [h3 EXCEPT !.size[l] = @ + 1, !.path = "done", !.ret = e]

\* InsertAfter without the membership guard.
InsertAfter_NoGuard(h, l, v, mark) == insertValueAfter(h, l, v, mark)

InsertAfter(h, l, v, mark) ==
    IF h.list[mark] # l THEN [h EXCEPT !.path = "guard", !.ret = Nil]
    ELSE insertValueAfter(h, l, v, mark)

\* InsertBefore that passes mark instead of mark.prev.
InsertBefore_AfterMark(h, l, v, mark) ==
    IF h.list[mark] # l THEN [h EXCEPT !.path = "guard", !.ret = Nil]
    ELSE insertValueAfter(h, l, v, mark)

InsertBefore(h, l, v, mark) ==
    IF h.list[mark] # l THEN [h EXCEPT !.path = "guard", !.ret = Nil]
    ELSE insertValueAfter(h, l, v, h.prev[mark])

\* moveAfter that forgets the fixup around the old position of e.
moveAfter_NoUnlink(h, l, e, mark) ==
    IF e = mark THEN [h EXCEPT !.path = "noop"]
    ELSE
      LET h3 == [h EXCEPT !.prev[e] = mark]
          h4 == [h3 EXCEPT !.next[e] = h3.next[mark]]
          h5 == [h4 EXCEPT !.prev[h4.next[mark]] = e]
      IN  [h5 EXCEPT !.next[mark] = e, !.path = "done"]

\* moveAfter without the "e == mark" return.
moveAfter_NoSelfCheck(h, l, e, mark) ==
    LET h1 == [h EXCEPT !.next[h.prev[e]] = h.next[e]]
        h2 == [h1 EXCEPT !.prev[h1.next[e]] = h1.prev[e]]
        h3 == [h2 EXCEPT !.prev[e] = mark]
        h4 == [h3 EXCEPT !.next[e] = h3.next[mark]]
        h5 == [h4 EXCEPT !.prev[h4.next[mark]] = e]
    IN  [h5 EXCEPT !.next[mark] = e, !.path = "done"]

moveAfter(h, l, e, mark) ==
    IF e = mark THEN [h EXCEPT !.path = "noop"]
    ELSE IF h.prev[e] = Nil THEN Panic(h)                \* e.prev.next = e.next
    ELSE
      LET h1 == [h EXCEPT !.next[h.prev[e]] = h.next[e]]
      IN  IF h1.next[e] = Nil THEN Panic(h1)            \* e.next.prev = e.prev
          ELSE
            LET h2 == [h1 EXCEPT !.prev[h1.next[e]] = h1.prev[e]]
                h3 == [h2 EXCEPT !.prev[e] = mark]
            IN  IF mark = Nil THEN Panic(h3)            \* e.next = mark.next
                ELSE
                  LET h4 == [h3 EXCEPT !.next[e] = h3.next[mark]]
                  IN  IF h4.next[mark] = Nil THEN Panic(h4)  \* mark.next.prev = e
                      ELSE
                        LET h5 == [h4 EXCEPT !.prev[h4.next[mark]] = e]
                        IN  [h5 EXCEPT !.next[mark] = e, !.path = "done"]

\* MoveAfter that checks e.list only.
MoveAfter_NoMarkGuard(h, l, e, mark) ==
    IF h.list[e] # l THEN [h EXCEPT !.path = "guard"]
    ELSE IF e = mark THEN [h EXCEPT !.path = "noop"]
    ELSE moveAfter(h, l, e, mark)

MoveAfter(h, l, e, mark) ==
    IF h.list[e] # l \/ h.list[mark] # l THEN [h EXCEPT !.path = "guard"]
    ELSE IF e = mark THEN [h EXCEPT !.path = "noop"]
    ELSE moveAfter(h, l, e, mark)

\* MoveBefore that passes mark instead of mark.prev.
MoveBefore_AfterMark(h, l, e, mark) ==
    IF h.list[e] # l \/ h.list[mark] # l THEN [h EXCEPT !.path = "guard"]
    ELSE IF e = mark THEN [h EXCEPT !.path = "noop"]
    ELSE moveAfter(h, l, e, mark)

\* MoveBefore without "mark.list != l" in its guard.
MoveBefore_NoMarkGuard(h, l, e, mark) ==
    IF h.list[e] # l THEN [h EXCEPT !.path = "guard"]
    ELSE IF e = mark THEN [h EXCEPT !.path = "noop"]
    ELSE moveAfter(h, l, e, h.prev[mark])

MoveBefore(h, l, e, mark) ==
    IF h.list[e] # l \/ h.list[mark] # l THEN [h EXCEPT !.path = "guard"]
    ELSE IF e = mark THEN [h EXCEPT !.path = "noop"]
    ELSE moveAfter(h, l, e, h.prev[mark])

\* MoveToBack that splices after the sentinel instead of after root.prev.
MoveToBack_AfterRoot(h, l, e) ==
    IF h.list[e] # l THEN [h EXCEPT !.path = "guard"]
    ELSE IF h.prev[Root(l)] = e THEN [h EXCEPT !.path = "noop"]
    ELSE moveAfter(h, l, e, Root(l))

MoveToBack(h, l, e) ==
    IF e = Nil THEN Panic(h)                             \* e.list
    ELSE IF h.list[e] # l THEN [h EXCEPT !.path = "guard"]
    ELSE IF h.prev[Root(l)] = e THEN [h EXCEPT !.path = "noop"]
    ELSE moveAfter(h, l, e, h.prev[Root(l)])

MoveToFront(h, l, e) ==
    IF e = Nil THEN Panic(h)                             \* e.list
    ELSE IF h.list[e] # l THEN [h EXCEPT !.path = "guard"]
    ELSE IF h.next[Root(l)] = e THEN [h EXCEPT !.path = "noop"]
    ELSE moveAfter(h, l, e, Root(l))

\* PushBack that inserts after the sentinel instead of after root.prev.
PushBack_AfterRoot(h, l, v) ==
    LET h0 == lazyInit(h, l)
    IN  insertValueAfter(h0, l, v, Root(l))

PushBack(h, l, v) ==
    LET h0 == lazyInit(h, l)
    IN  insertValueAfter(h0, l, v, h0.prev[Root(l)])

PushFront(h, l, v) ==
    LET h0 == lazyInit(h, l)
    IN  insertValueAfter(h0, l, v, Root(l))

\* The PushBackList loop without "e = e.Next()".
RECURSIVE PushBackListLoop_NoAdvance(_, _, _, _)
PushBackListLoop_NoAdvance(h, l, e, i) ==
    IF h.panic \/ i <= 0 THEN h
    ELSE IF e = Nil THEN Panic(h)
    ELSE LET h1 == insertValueAfter(h, l, h.Value[e], h.prev[Root(l)])
         IN  PushBackListLoop_NoAdvance(h1, l, e, i - 1)

RECURSIVE PushBackListLoop(_, _, _, _)
PushBackListLoop(h, l, e, i) ==
    IF h.panic \/ i <= 0 THEN h
    ELSE IF e = Nil THEN Panic(h)                        \* e.Value
    ELSE LET h1 == insertValueAfter(h, l, h.Value[e], h.prev[Root(l)])
         IN  PushBackListLoop(h1, l, ElementNext(h1, e), i - 1)

\* PushBackList that calls other.insertValueAfter instead of
\* l.insertValueAfter.
RECURSIVE PushBackListLoop_ViaOther(_, _, _, _, _)
PushBackListLoop_ViaOther(h, l, other, e, i) ==
    IF h.panic \/ i <= 0 THEN h
    ELSE IF e = Nil THEN Panic(h)
    ELSE LET h1 == insertValueAfter(h, other, h.Value[e], h.prev[Root(l)])
         IN  PushBackListLoop_ViaOther(h1, l, other, ElementNext(h1, e), i - 1)

PushBackList_ViaOther(h, l, other) ==
    LET h0 == [lazyInit(h, l) EXCEPT !.path = "done"]
        hn == PushBackListLoop_ViaOther(h0, l, other, Front(h0, other),
                                        ListLen(h0, other))
    IN  [hn EXCEPT !.ret = Nil]

PushBackList(h, l, other) ==
    LET h0 == [lazyInit(h, l) EXCEPT !.path = "done"]
        hn == PushBackListLoop(h0, l, Front(h0, other), ListLen(h0, other))
    IN  [hn EXCEPT !.ret = Nil]

RECURSIVE PushFrontListLoop(_, _, _, _)
PushFrontListLoop(h, l, e, i) ==
    IF h.panic \/ i <= 0 THEN h
    ELSE IF e = Nil THEN Panic(h)                        \* e.Value
    ELSE LET h1 == insertValueAfter(h, l, h.Value[e], Root(l))
         IN  PushFrontListLoop(h1, l, ElementPrev(h1, e), i - 1)

\* PushFrontList that walks other from Front() with Next().
RECURSIVE PushFrontListLoop_Forward(_, _, _, _)
PushFrontListLoop_Forward(h, l, e, i) ==
    IF h.panic \/ i <= 0 THEN h
    ELSE IF e = Nil THEN Panic(h)
    ELSE LET h1 == insertValueAfter(h, l, h.Value[e], Root(l))
         IN  PushFrontListLoop_Forward(h1, l, ElementNext(h1, e), i - 1)

PushFrontList_Forward(h, l, other) ==
    LET h0 == [lazyInit(h, l) EXCEPT !.path = "done"]
        hn == PushFrontListLoop_Forward(h0, l, Front(h0, other), ListLen(h0, other))
    IN  [hn EXCEPT !.ret = Nil]

PushFrontList(h, l, other) ==
    LET h0 == [lazyInit(h, l) EXCEPT !.path = "done"]
        hn == PushFrontListLoop(h0, l, Back(h0, other), ListLen(h0, other))
    IN  [hn EXCEPT !.ret = Nil]

\* Remove that counts the element out before looking at its owner.
Remove_CountFirst(h, l, e) ==
    IF h.list[e] # l
    THEN [h EXCEPT !.size[l] = @ - 1, !.path = "guard", !.ret = h.Value[e]]
    ELSE
      LET h1 == [h EXCEPT !.next[h.prev[e]] = h.next[e]]
          h2 == [h1 EXCEPT !.prev[h1.next[e]] = h1.prev[e]]
      IN  [h2 EXCEPT !.prev[e] = Nil, !.next[e] = Nil, !.list[e] = Nil,
                     !.size[l] = @ - 1, !.path = "done", !.ret = h.Value[e]]

\* Remove that forgets "e.list = nil".
Remove_KeepOwner(h, l, e) ==
    IF h.list[e] # l THEN [h EXCEPT !.path = "guard", !.ret = h.Value[e]]
    ELSE
      LET h1 == [h EXCEPT !.next[h.prev[e]] = h.next[e]]
          h2 == [h1 EXCEPT !.prev[h1.next[e]] = h1.prev[e]]
      IN  [h2 EXCEPT !.prev[e] = Nil, !.next[e] = Nil,
                     !.size[l] = @ - 1, !.path = "done", !.ret = h.Value[e]]

Remove(h, l, e) ==
    IF h.list[e] # l THEN [h EXCEPT !.path = "guard", !.ret = h.Value[e]]
    ELSE IF h.prev[e] = Nil THEN Panic(h)                \* e.prev.next = e.next
    ELSE
      LET h1 == [h EXCEPT !.next[h.prev[e]] = h.next[e]]
      IN  IF h1.next[e] = Nil THEN Panic(h1)            \* e.next.prev = e.prev
          ELSE
            LET h2 == [h1 EXCEPT !.prev[h1.next[e]] = h1.prev[e]]
            IN  [h2 EXCEPT !.prev[e] = Nil, !.next[e] = Nil, !.list[e] = Nil,
                           !.size[l] = @ - 1, !.path = "done",
                           !.ret = h.Value[e]]

----------------------------------------------------------------------------
(* The program: a caller holding NumLists List values and the handles of   *)
(* the elements allocated so far, calling one method at a time.  Front,    *)
(* Back, Len, Next and Prev read the heap and are the operators above.     *)

Init ==
    /\ prev = [n \in Nodes |-> Nil]
    /\ next = [n \in Nodes |-> Nil]
    /\ list = [n \in Nodes |-> Nil]
    /\ Value = [n \in Nodes |-> ZeroValue]
    /\ size = [l \in Lists |-> 0]
    /\ nalloc = 0
    /\ panicked = FALSE
    /\ op = "none"
    /\ path = "done"
    /\ ret = Nil
    /\ discarded = {}
    /\ misused = FALSE

\* The call leaves the heap as h.
Commit(h) ==
    /\ prev' = h.prev
    /\ next' = h.next
    /\ list' = h.list
    /\ Value' = h.Value
    /\ size' = h.size
    /\ nalloc' = h.nalloc
    /\ panicked' = h.panic
    /\ path' = h.path
    /\ ret' = h.ret

\* A call of method name with the element handles in args.
Call(name, args) ==
    /\ ~panicked
    /\ op' = name
    /\ misused' = (misused \/ args \cap discarded # {})

\* The elements that Init(l) leaves behind with list = l.
Owned(l) == {e \in Allocated(H) : list[e] = l}

CallNew(l) ==
    /\ next[Root(l)] = Nil
    /\ Call("New", {})
    /\ Commit(ListInit(H, l))
    /\ UNCHANGED discarded

CallInit(l) ==
    /\ Call("Init", {})
    /\ Commit(ListInit(H, l))
    /\ discarded' = discarded \cup Owned(l)

CallPushBack(l, v) ==
    /\ nalloc < MaxElems
    /\ Call("PushBack", {})
    /\ Commit(PushBack(H, l, v))
    /\ UNCHANGED discarded

CallPushFront(l, v) ==
    /\ nalloc < MaxElems
    /\ Call("PushFront", {})
    /\ Commit(PushFront(H, l, v))
    /\ UNCHANGED discarded

CallInsertAfter(l, v, mark) ==
    /\ nalloc < MaxElems
    /\ Call("InsertAfter", {mark})
    /\ Commit(InsertAfter(H, l, v, mark))
    /\ UNCHANGED discarded

CallInsertBefore(l, v, mark) ==
    /\ nalloc < MaxElems
    /\ Call("InsertBefore", {mark})
    /\ Commit(InsertBefore(H, l, v, mark))
    /\ UNCHANGED discarded

CallRemove(l, e) ==
    /\ Call("Remove", {e})
    /\ Commit(Remove(H, l, e))
    /\ UNCHANGED discarded

CallMoveToFront(l, e) ==
    /\ Call("MoveToFront", {e})
    /\ Commit([MoveToFront(H, l, e) EXCEPT !.ret = Nil])
    /\ UNCHANGED discarded

CallMoveToBack(l, e) ==
    /\ Call("MoveToBack", {e})
    /\ Commit([MoveToBack(H, l, e) EXCEPT !.ret = Nil])
    /\ UNCHANGED discarded

CallMoveBefore(l, e, mark) ==
    /\ Call("MoveBefore", {e, mark})
    /\ Commit([MoveBefore(H, l, e, mark) EXCEPT !.ret = Nil])
    /\ UNCHANGED discarded

CallMoveAfter(l, e, mark) ==
    /\ Call("MoveAfter", {e, mark})
    /\ Commit([MoveAfter(H, l, e, mark) EXCEPT !.ret = Nil])
    /\ UNCHANGED discarded

\* The loop runs other.Len() times, as read at entry; the arena must have
\* room for that many new elements.
CallPushBackList(l, other) ==
    /\ nalloc + (IF size[other] > 0 THEN size[other] ELSE 0) <= MaxElems
    /\ Call("PushBackList", {})
    /\ Commit(PushBackList(H, l, other))
    /\ UNCHANGED discarded

CallPushFrontList(l, other) ==
    /\ nalloc + (IF size[other] > 0 THEN size[other] ELSE 0) <= MaxElems
    /\ Call("PushFrontList", {})
    /\ Commit(PushFrontList(H, l, other))
    /\ UNCHANGED discarded

Next ==
    \/ \E l \in Lists : CallNew(l)
    \/ \E l \in Lists : CallInit(l)
    \/ \E l \in Lists, v \in Values : CallPushBack(l, v)
    \/ \E l \in Lists, v \in Values : CallPushFront(l, v)
    \/ \E l \in Lists, v \in Values, mark \in Allocated(H) : CallInsertAfter(l, v, mark)
    \/ \E l \in Lists, v \in Values, mark \in Allocated(H) : CallInsertBefore(l, v, mark)
    \/ \E l \in Lists, e \in Allocated(H) : CallRemove(l, e)
    \/ \E l \in Lists, e \in Allocated(H) : CallMoveToFront(l, e)
    \/ \E l \in Lists, e \in Allocated(H) : CallMoveToBack(l, e)
    \/ \E l \in Lists, e, mark \in Allocated(H) : CallMoveBefore(l, e, mark)
    \/ \E l \in Lists, e, mark \in Allocated(H) : CallMoveAfter(l, e, mark)
    \/ \E l, other \in Lists : CallPushBackList(l, other)
    \/ \E l, other \in Lists : CallPushFrontList(l, other)

Spec == Init /\ [][Next]_vars

----------------------------------------------------------------------------
(* The bulk copies.  A caller that builds its lists with PushBack and      *)
(* PushFront and then copies them with PushBackList and PushFrontList, any *)
(* list into any list, itself included.  No method reads a Value (T is    *)
(* any), so the pushed values are taken pairwise distinct, the k-th push   *)
(* holding k: the order of a copy then shows in the values, and a run with *)
(* other values is this run with the values renamed.                       *)

\* The value of the next push.
FreshValue == nalloc + 1

BulkPushBack(l) ==
    /\ nalloc < MaxPushed
    /\ Call("PushBack", {})
    /\ Commit(PushBack(H, l, FreshValue))
    /\ UNCHANGED discarded

BulkPushFront(l) ==
    /\ nalloc < MaxPushed
    /\ Call("PushFront", {})
    /\ Commit(PushFront(H, l, FreshValue))
    /\ UNCHANGED discarded

\* The loop runs other.Len() times, as read at entry.
BulkRoom(other) == nalloc + (IF size[other] > 0 THEN size[other] ELSE 0) <= MaxBulk

BulkPushBackList(l, other) ==
    /\ BulkRoom(other)
    /\ Call("PushBackList", {})
    /\ Commit(PushBackList(H, l, other))
    /\ UNCHANGED discarded

BulkPushFrontList(l, other) ==
    /\ BulkRoom(other)
    /\ Call("PushFrontList", {})
    /\ Commit(PushFrontList(H, l, other))
    /\ UNCHANGED discarded

NextBulk ==
    \/ \E l \in Lists : BulkPushBack(l)
    \/ \E l \in Lists : BulkPushFront(l)
    \/ \E l, other \in Lists : BulkPushBackList(l, other)
    \/ \E l, other \in Lists : BulkPushFrontList(l, other)

SpecBulk == Init /\ [][NextBulk]_vars

----------------------------------------------------------------------------
(* Vocabulary of the properties *)

\* The nodes reached from the sentinel of l by following next, the sentinel
\* included.
RECURSIVE ReachFrom(_, _, _)
ReachFrom(h, n, seen) ==
    IF n = Nil \/ n \in seen THEN seen
    ELSE ReachFrom(h, h.next[n], seen \cup {n})

Reach(h, l) == ReachFrom(h, Root(l), {})

\* The elements of l: the nodes of its ring other than its sentinel.
Members(h, l) == Reach(h, l) \ {Root(l)}

\* More steps than any walk over distinct nodes can take.
Fuel == Cardinality(Nodes) + 1

\* The handles met by starting at Front() and applying Next() until none.
RECURSIVE WalkFrom(_, _, _)
WalkFrom(h, e, fuel) ==
    IF e = Nil \/ fuel = 0 THEN << >>
    ELSE << e >> \o WalkFrom(h, ElementNext(h, e), fuel - 1)

Walk(h, l) == WalkFrom(h, Front(h, l), Fuel)

\* The handles met by starting at Back() and applying Prev() until none.
RECURSIVE WalkBackFrom(_, _, _)
WalkBackFrom(h, e, fuel) ==
    IF e = Nil \/ fuel = 0 THEN << >>
    ELSE << e >> \o WalkBackFrom(h, ElementPrev(h, e), fuel - 1)

WalkBack(h, l) == WalkBackFrom(h, Back(h, l), Fuel)

Initialized(h, l) == h.next[Root(l)] # Nil

\* n.prev.next == n and n.next.prev == n
Linked(h, n) ==
    /\ h.prev[n] # Nil
    /\ h.next[n] # Nil
    /\ h.next[h.prev[n]] = n
    /\ h.prev[h.next[n]] = n

RingOK(h, l) == \A n \in Reach(h, l) : Linked(h, n)

SizeOK(h, l) ==
    /\ ListLen(h, l) = Len(Walk(h, l))
    /\ ListLen(h, l) = Cardinality(Members(h, l))

InSomeRing(h, e) == \E l \in Lists : e \in Members(h, l)

MembershipOK(h, e) ==
    /\ \A l \in Lists : (h.list[e] = l) <=> (e \in Members(h, l))
    /\ (h.list[e] = Nil) <=> ~InSomeRing(h, e)

----------------------------------------------------------------------------
(* C1 - ring invariant *)

\* C1 as stated: in every reachable state, whatever element handles the
\* calls were given, every node reachable from the sentinel of an
\* initialized list has n.prev.next == n and n.next.prev == n.
C1_RingInvariantAnyHandles ==
    \A l \in Lists : Initialized(H, l) => RingOK(H, l)

\* C1 as amended: the same, in every state reached without passing to any
\* call the handle of an element that was still in a list when Init reset
\* that list.
C1_RingInvariant ==
    ~misused => \A l \in Lists : Initialized(H, l) => RingOK(H, l)

\* A list was reset by Init while it held elements, no left-behind handle
\* was used, and an element has since been moved inside a ring of two.
C1_Witness ==
    /\ ~misused
    /\ discarded # {}
    /\ op = "MoveAfter" /\ path = "done"
    /\ \E l \in Lists : Cardinality(Members(H, l)) = 2

----------------------------------------------------------------------------
(* C2 - size invariant *)

\* C2 as stated: in every reachable state, Init and stale handles
\* included, Len() of every list equals the length of the Front()/Next()
\* walk and the number of non-sentinel nodes reachable from the sentinel.
C2_SizeInvariantAnyHandles == \A l \in Lists : SizeOK(H, l)

\* C2 as amended: the same, in every state reached without passing to any
\* call the handle of an element that was still in a list when Init reset
\* that list.
C2_SizeInvariant == ~misused => \A l \in Lists : SizeOK(H, l)

\* A populated list was reset by Init and refilled, and an element was
\* removed from a list that keeps another.
C2_Witness ==
    /\ ~misused
    /\ discarded # {}
    /\ op = "Remove" /\ path = "done"
    /\ \E l \in Lists : ListLen(H, l) = 1

----------------------------------------------------------------------------
(* C3 - membership invariant *)

\* C3 as stated: in every reachable state and for every element ever
\* created, e.list = L exactly when e is reachable from the sentinel of L,
\* and e.list is nil exactly when e is in no ring.
C3_MembershipAllElements == \A e \in Allocated(H) : MembershipOK(H, e)

\* C3 as amended: the same for every element that was not left behind in a
\* list reset by Init, in every state reached without passing the handle
\* of such an element to any call.
C3_Membership ==
    ~misused => \A e \in Allocated(H) \ discarded : MembershipOK(H, e)

\* One element is in a ring, another has been removed, a third was left
\* behind by Init, and no left-behind handle was used.
C3_Witness ==
    /\ ~misused
    /\ discarded # {}
    /\ \E e \in Allocated(H) \ discarded : list[e] = Nil
    /\ \E e \in Allocated(H) \ discarded : list[e] # Nil

----------------------------------------------------------------------------
(* Vocabulary of the operation contracts *)

\* What a call can change: everything of the heap but the record of how
\* the call ended.
Heap(h) == << h.prev, h.next, h.list, h.Value, h.size, h.nalloc, h.panic >>

\* A list as the data model describes it: either the zero value, or a ring
\* through the sentinel whose other nodes are elements owned by l, size of
\* them.
WellFormed(h, l) ==
    \/ /\ h.next[Root(l)] = Nil
       /\ h.prev[Root(l)] = Nil
       /\ h.size[l] = 0
    \/ /\ Initialized(h, l)
       /\ RingOK(h, l)
       /\ \A n \in Members(h, l) : n \in Allocated(h) /\ h.list[n] = l
       /\ h.size[l] = Cardinality(Members(h, l))

ValuesOf(h, s) == [i \in DOMAIN s |-> h.Value[s[i]]]

Reverse(s) == [i \in 1..Len(s) |-> s[Len(s) + 1 - i]]

Without(s, e) == SelectSeq(s, LAMBDA x : x # e)

IndexOf(s, e) == CHOOSE i \in 1..Len(s) : s[i] = e

\* s with e put right after position i (0: in front).
InsertedAt(s, i, e) == SubSeq(s, 1, i) \o << e >> \o SubSeq(s, i + 1, Len(s))

\* The call created exactly one element, h2.ret, holding v and owned by l,
\* and touched no value or owner of an older element.
CreatedOne(h, h2, l, v) ==
    /\ h2.nalloc = h.nalloc + 1
    /\ h2.ret \in Allocated(h2) \ Allocated(h)
    /\ h2.Value[h2.ret] = v
    /\ h2.list[h2.ret] = l
    /\ \A x \in Nodes \ {h2.ret} :
          h2.Value[x] = h.Value[x] /\ h2.list[x] = h.list[x]
    /\ h2.size = [h.size EXCEPT ![l] = @ + 1]

\* The call created and destroyed no element and changed no value, owner
\* or size.
SameElements(h, h2) ==
    /\ h2.nalloc = h.nalloc
    /\ h2.Value = h.Value
    /\ h2.list = h.list
    /\ h2.size = h.size

\* The lists other than l walk as before.
OthersSame(h, h2, l) ==
    \A m \in Lists \ {l} : Walk(h2, m) = Walk(h, m) /\ WellFormed(h2, m) = WellFormed(h, m)

----------------------------------------------------------------------------
(* C4 - push order *)

PushBackOK(h, h2, l, v) ==
    /\ CreatedOne(h, h2, l, v)
    /\ Back(h2, l) = h2.ret
    /\ ListLen(h2, l) = ListLen(h, l) + 1
    /\ Walk(h2, l) = Append(Walk(h, l), h2.ret)
    /\ ValuesOf(h2, Walk(h2, l)) = Append(ValuesOf(h, Walk(h, l)), v)
    /\ WalkBack(h2, l) = Reverse(Walk(h2, l))
    /\ Walk(h, l) = << >> =>
          Front(h2, l) = h2.ret /\ Back(h2, l) = h2.ret /\ ListLen(h2, l) = 1
    /\ WellFormed(h2, l)

PushFrontOK(h, h2, l, v) ==
    /\ CreatedOne(h, h2, l, v)
    /\ Front(h2, l) = h2.ret
    /\ ListLen(h2, l) = ListLen(h, l) + 1
    /\ Walk(h2, l) = << h2.ret >> \o Walk(h, l)
    /\ ValuesOf(h2, Walk(h2, l)) = << v >> \o ValuesOf(h, Walk(h, l))
    /\ WalkBack(h2, l) = Reverse(Walk(h2, l))
    /\ WellFormed(h2, l)

\* C4: a list freshly made by New or Init, or still the zero value, is
\* empty and well formed; and on every well-formed list PushBack(v)
\* returns a new element holding v that is then Back(), PushFront(v) one
\* that is then Front(), Len() grows by 1, the forward walk is the old one
\* with the element appended (PushBack) or prepended (PushFront), and the
\* backward walk is its reverse.  By induction this is the stated order for
\* every sequence of pushes from an empty list.
C4_PushOrder ==
    \A l \in Lists :
       /\ WellFormed(ListInit(H, l), l) /\ Walk(ListInit(H, l), l) = << >>
       /\ (~Initialized(H, l)) => WellFormed(H, l) /\ Walk(H, l) = << >>
       /\ (~panicked /\ nalloc < MaxElems /\ WellFormed(H, l)) =>
             \A v \in Values :
                /\ PushBackOK(H, PushBack(H, l, v), l, v)
                /\ PushFrontOK(H, PushFront(H, l, v), l, v)

\* Three pushes on one list, the last a PushFront whose element is now the
\* first of three.
C4_Witness ==
    /\ op = "PushFront" /\ path = "done"
    /\ discarded = {}
    /\ \E l \in Lists : Len(Walk(H, l)) = 3 /\ Front(H, l) = ret /\ nalloc = 3

----------------------------------------------------------------------------
(* C5 - Remove of a member *)

RemoveOK(h, h2, l, e) ==
    /\ h2.ret = h.Value[e]
    /\ ListLen(h2, l) = ListLen(h, l) - 1
    /\ Walk(h2, l) = Without(Walk(h, l), e)
    /\ Len(Walk(h2, l)) = Len(Walk(h, l)) - 1
    /\ h2.prev[e] = Nil /\ h2.next[e] = Nil /\ h2.list[e] = Nil
    /\ ElementNext(h2, e) = Nil /\ ElementPrev(h2, e) = Nil
    /\ h2.nalloc = h.nalloc /\ h2.Value = h.Value
    /\ \A x \in Nodes \ {e} : h2.list[x] = h.list[x]
    /\ h2.size = [h.size EXCEPT ![l] = @ - 1]
    /\ WellFormed(h2, l)
    /\ OthersSame(h, h2, l)
    \* a second Remove(e)
    /\ Heap(Remove(h2, l, e)) = Heap(h2)
    /\ Remove(h2, l, e).ret = h.Value[e]

\* C5: on every well-formed list l and for every element e in its ring,
\* Remove(e) returns e.Value, decrements Len() by 1, takes e out of the
\* forward walk and leaves the rest in order, clears e.prev, e.next and
\* e.list so that e.Next() and e.Prev() are none, and a second Remove(e)
\* changes nothing.
C5_RemoveMember ==
    \A l \in Lists : \A e \in Allocated(H) :
       (~panicked /\ WellFormed(H, l) /\ e \in Members(H, l)) =>
          RemoveOK(H, Remove(H, l, e), l, e)

\* An element has been removed from a list that held three and no
\* left-behind handle was ever used.
C5_Witness ==
    /\ op = "Remove" /\ path = "done" /\ ~misused
    /\ \E l \in Lists : Len(Walk(H, l)) = 2 /\ nalloc = 3 /\ discarded = {}

----------------------------------------------------------------------------
(* C6 - insert placement *)

InsertAfterOK(h, h2, l, v, mark) ==
    /\ CreatedOne(h, h2, l, v)
    /\ ElementNext(h2, mark) = h2.ret
    /\ ListLen(h2, l) = ListLen(h, l) + 1
    /\ Walk(h2, l) = InsertedAt(Walk(h, l), IndexOf(Walk(h, l), mark), h2.ret)
    /\ WellFormed(h2, l)
    /\ OthersSame(h, h2, l)

InsertBeforeOK(h, h2, l, v, mark) ==
    /\ CreatedOne(h, h2, l, v)
    /\ ElementPrev(h2, mark) = h2.ret
    /\ ListLen(h2, l) = ListLen(h, l) + 1
    /\ Walk(h2, l) = InsertedAt(Walk(h, l), IndexOf(Walk(h, l), mark) - 1, h2.ret)
    /\ WellFormed(h2, l)
    /\ OthersSame(h, h2, l)

\* C6: on every well-formed list l and for every mark in its ring,
\* InsertAfter(v, mark) returns a new element e holding v with
\* mark.Next() == e, InsertBefore(v, mark) one with mark.Prev() == e; Len()
\* grows by 1, e.list is l, and the older elements keep their values and
\* their order.
C6_InsertPlacement ==
    \A l \in Lists : \A mark \in Allocated(H) :
       (~panicked /\ nalloc < MaxElems /\ WellFormed(H, l) /\ mark \in Members(H, l)) =>
          \A v \in Values :
             /\ InsertAfterOK(H, InsertAfter(H, l, v, mark), l, v, mark)
             /\ InsertBeforeOK(H, InsertBefore(H, l, v, mark), l, v, mark)

\* InsertBefore has put the third element between the two older ones.
C6_Witness ==
    /\ op = "InsertBefore" /\ path = "done" /\ ~misused
    /\ \E l \in Lists : Len(Walk(H, l)) = 3 /\ Walk(H, l)[2] = ret

----------------------------------------------------------------------------
(* C7 - insert guard *)

\* C7: in every reachable state, if mark.list is not l (mark is owned by
\* another list, or by none), InsertAfter(v, mark) and InsertBefore(v, mark)
\* on l return none, allocate nothing and leave every link, owner, value
\* and size as it was.
C7_InsertGuard ==
    \A l \in Lists : \A mark \in Allocated(H) :
       (~panicked /\ nalloc < MaxElems /\ list[mark] # l) =>
          \A v \in Values :
             /\ InsertAfter(H, l, v, mark).ret = Nil
             /\ Heap(InsertAfter(H, l, v, mark)) = Heap(H)
             /\ InsertBefore(H, l, v, mark).ret = Nil
             /\ Heap(InsertBefore(H, l, v, mark)) = Heap(H)

\* InsertAfter returned at its guard while every element was owned by one
\* list b: the call was on the other list, with a mark of b.
C7_Witness ==
    /\ op = "InsertAfter" /\ path = "guard" /\ ret = Nil
    /\ nalloc >= 2
    /\ \E b \in Lists : \A e \in Allocated(H) : list[e] = b

----------------------------------------------------------------------------
(* C8 - non-member guards *)

\* C8: in every reachable state, Remove, MoveToFront and MoveToBack of an
\* element whose list is not l, and MoveBefore and MoveAfter where e.list
\* or mark.list is not l, leave every link, owner, value and size as it
\* was; Remove still returns e.Value.
C8_NonMemberNoOp ==
    \A l \in Lists : \A e \in Allocated(H) :
       ~panicked =>
          /\ list[e] # l =>
                /\ Heap(Remove(H, l, e)) = Heap(H)
                /\ Remove(H, l, e).ret = Value[e]
                /\ Heap(MoveToFront(H, l, e)) = Heap(H)
                /\ Heap(MoveToBack(H, l, e)) = Heap(H)
          /\ \A mark \in Allocated(H) :
                (list[e] # l \/ list[mark] # l) =>
                   /\ Heap(MoveBefore(H, l, e, mark)) = Heap(H)
                   /\ Heap(MoveAfter(H, l, e, mark)) = Heap(H)

\* MoveAfter returned at its guard while both lists held elements.
C8_Witness ==
    /\ op = "MoveAfter" /\ path = "guard"
    /\ \A l \in Lists : Members(H, l) # {}

----------------------------------------------------------------------------
(* C9 - MoveToFront / MoveToBack *)

\* C9: on every well-formed list l and for every element e in its ring,
\* after MoveToFront(e) Front() is e and after MoveToBack(e) Back() is e;
\* no size changes, no element is created or destroyed, every value and
\* owner stays, and the other elements keep their order.
C9_MoveToEnds ==
    \A l \in Lists : \A e \in Allocated(H) :
       (~panicked /\ WellFormed(H, l) /\ e \in Members(H, l)) =>
          LET hf == MoveToFront(H, l, e)
              hb == MoveToBack(H, l, e)
          IN  /\ Front(hf, l) = e
              /\ Walk(hf, l) = << e >> \o Without(Walk(H, l), e)
              /\ SameElements(H, hf) /\ WellFormed(hf, l) /\ OthersSame(H, hf, l)
              /\ Back(hb, l) = e
              /\ Walk(hb, l) = Append(Without(Walk(H, l), e), e)
              /\ SameElements(H, hb) /\ WellFormed(hb, l) /\ OthersSame(H, hb, l)

\* MoveToBack has moved an element of a list of three.
C9_Witness ==
    /\ op = "MoveToBack" /\ path = "done" /\ ~misused
    /\ \E l \in Lists : Len(Walk(H, l)) = 3

----------------------------------------------------------------------------
(* C10 - MoveBefore / MoveAfter *)

\* C10: on every well-formed list l and for every two distinct elements e
\* and mark in its ring, after MoveBefore(e, mark) mark.Prev() is e and
\* after MoveAfter(e, mark) mark.Next() is e; no size changes, no element
\* is created or destroyed, every value and owner stays, and the other
\* elements keep their order.
C10_MoveRelative ==
    \A l \in Lists : \A e, mark \in Allocated(H) :
       (~panicked /\ WellFormed(H, l) /\ e \in Members(H, l)
          /\ mark \in Members(H, l) /\ e # mark) =>
          LET rest == Without(Walk(H, l), e)
              hb == MoveBefore(H, l, e, mark)
              ha == MoveAfter(H, l, e, mark)
          IN  /\ ElementPrev(hb, mark) = e
              /\ Walk(hb, l) = InsertedAt(rest, IndexOf(rest, mark) - 1, e)
              /\ SameElements(H, hb) /\ WellFormed(hb, l) /\ OthersSame(H, hb, l)
              /\ ElementNext(ha, mark) = e
              /\ Walk(ha, l) = InsertedAt(rest, IndexOf(rest, mark), e)
              /\ SameElements(H, ha) /\ WellFormed(ha, l) /\ OthersSame(H, ha, l)

\* MoveBefore has moved an element of a list of three.
C10_Witness ==
    /\ op = "MoveBefore" /\ path = "done" /\ ~misused
    /\ \E l \in Lists : Len(Walk(H, l)) = 3

----------------------------------------------------------------------------
(* Vocabulary of the bulk copies *)

\* The i-th element created after the heap h.
Created(h, i) == NumLists + h.nalloc + i

\* The call left every element that existed before it with its value and
\* owner.
OldUntouched(h, h2) ==
    \A x \in Allocated(h) : h2.Value[x] = h.Value[x] /\ h2.list[x] = h.list[x]

----------------------------------------------------------------------------
(* C11 - PushBackList appends a snapshot *)

PushBackListOK(h, h2, l, other) ==
    LET n   == ListLen(h, other)
        old == Walk(h, l)
        src == Walk(h, other)
        w2  == Walk(h2, l)
    IN  /\ ~h2.panic
        /\ h2.nalloc = h.nalloc + n
        /\ ListLen(h2, l) = ListLen(h, l) + n
        /\ w2 = old \o [i \in 1..n |-> Created(h, i)]
        /\ ValuesOf(h2, w2) = ValuesOf(h, old) \o ValuesOf(h, src)
        /\ OldUntouched(h, h2)
        /\ WellFormed(h2, l)

\* C11: for every two lists l and other, other == l included,
\* l.PushBackList(other) returns after exactly other.Len()-at-entry
\* insertions; l then walks as its old elements followed by that many new
\* elements holding other's values at entry in front-to-back order; the
\* old elements are untouched and the ring of l is intact.
C11_PushBackListSnapshot ==
    \A l, other \in Lists :
       (~panicked /\ BulkRoom(other) /\ WellFormed(H, l) /\ WellFormed(H, other)) =>
          PushBackListOK(H, PushBackList(H, l, other), l, other)

\* A list holding 1, 2, 3 was appended to itself: it walks as
\* 1, 2, 3, 1, 2, 3, its first three elements being the old ones.
C11_Witness ==
    /\ op = "PushBackList" /\ path = "done"
    /\ \E l \in Lists :
          /\ ValuesOf(H, Walk(H, l)) = << 1, 2, 3, 1, 2, 3 >>
          /\ nalloc = 6
          /\ \A i \in 1..3 : Walk(H, l)[i] <= NumLists + 3

----------------------------------------------------------------------------
(* C12 - PushFrontList preserves order *)

PushFrontListOK(h, h2, l, other) ==
    LET n   == ListLen(h, other)
        old == Walk(h, l)
        src == Walk(h, other)
        w2  == Walk(h2, l)
    IN  /\ ~h2.panic
        /\ h2.nalloc = h.nalloc + n
        /\ ListLen(h2, l) = ListLen(h, l) + n
        /\ w2 = [i \in 1..n |-> Created(h, n + 1 - i)] \o old
        /\ ValuesOf(h2, w2) = ValuesOf(h, src) \o ValuesOf(h, old)
        /\ OldUntouched(h, h2)
        /\ WellFormed(h2, l)

\* C12: for every two lists l and other, other == l included,
\* l.PushFrontList(other) returns after exactly other.Len()-at-entry
\* insertions; l then walks as that many new elements holding other's
\* values at entry in their front-to-back order, followed by its old
\* elements.
C12_PushFrontListOrder ==
    \A l, other \in Lists :
       (~panicked /\ BulkRoom(other) /\ WellFormed(H, l) /\ WellFormed(H, other)) =>
          PushFrontListOK(H, PushFrontList(H, l, other), l, other)

\* An empty list received 1, 2, 3 from the other list and walks as 1, 2, 3;
\* or a list holding 1, 2, 3 was prepended to itself.
C12_Witness ==
    /\ op = "PushFrontList" /\ path = "done"
    /\ \E l, m \in Lists :
          /\ l # m
          /\ ValuesOf(H, Walk(H, l)) = << 1, 2, 3 >>
          /\ ValuesOf(H, Walk(H, m)) = << 1, 2, 3 >>
          /\ nalloc = 6

\* A list holding 1, 2, 3 was prepended to itself and walks as
\* 1, 2, 3, 1, 2, 3, the last three elements being the old ones.
C12_WitnessSelf ==
    /\ op = "PushFrontList" /\ path = "done"
    /\ \E l \in Lists :
          /\ ValuesOf(H, Walk(H, l)) = << 1, 2, 3, 1, 2, 3 >>
          /\ \A i \in 4..6 : Walk(H, l)[i] <= NumLists + 3

----------------------------------------------------------------------------
(* C13 - bulk copy leaves the source unmodified *)

SourceUnmodified(h, h2, l, other) ==
    /\ h2.size[other] = h.size[other]
    /\ Walk(h2, other) = Walk(h, other)
    /\ \A x \in Reach(h, other) :
          /\ h2.prev[x] = h.prev[x]
          /\ h2.next[x] = h.next[x]
          /\ h2.list[x] = h.list[x]
          /\ h2.Value[x] = h.Value[x]
    /\ \A x \in Members(h2, l) \ Members(h, l) :
          /\ x \in Allocated(h2) \ Allocated(h)
          /\ x \notin Members(h, other)
          /\ h2.list[x] = l

\* C13: for every two distinct lists l and other, l.PushBackList(other) and
\* l.PushFrontList(other) leave other's size, ring, elements, values and
\* back-references as they were, and every element added to l is a new
\* element, none of other's, with list == l.
C13_BulkSourceUnmodified ==
    \A l, other \in Lists :
       (~panicked /\ l # other /\ BulkRoom(other)
          /\ WellFormed(H, l) /\ WellFormed(H, other)) =>
          /\ SourceUnmodified(H, PushBackList(H, l, other), l, other)
          /\ SourceUnmodified(H, PushFrontList(H, l, other), l, other)

\* A list of two was copied behind the one element of another list: the
\* source still has two elements and five elements exist.
C13_Witness ==
    /\ op = "PushBackList" /\ path = "done"
    /\ nalloc = 5
    /\ \E l, other \in Lists :
          /\ l # other
          /\ Len(Walk(H, other)) = 2
          /\ Len(Walk(H, l)) = 3
          /\ ValuesOf(H, SubSeq(Walk(H, l), 2, 3)) = ValuesOf(H, Walk(H, other))


----------------------------------------------------------------------------
(* C14 - the zero value of List *)

\* What a caller can observe of a list: Len(), Front(), Back() and the
\* values met walking forward and backward.
Observe(h, m) ==
    << ListLen(h, m), Front(h, m), Back(h, m),
       ValuesOf(h, Walk(h, m)), ValuesOf(h, WalkBack(h, m)) >>

\* The heap in which the zero-value list l is a list returned by New()
\* instead, everything else alike.
NewTwin(h, l) == [ListInit(h, l) EXCEPT !.path = h.path, !.ret = h.ret]

\* a, where l may still be the zero value, and b, where l came from New(),
\* cannot be told apart: the same result was returned, every list observes
\* the same, and the heaps are equal or differ only in that l is still the
\* zero value in a.
ZeroEquiv(a, b, l) ==
    /\ ~a.panic /\ ~b.panic
    /\ a.ret = b.ret
    /\ a.path = b.path
    /\ \/ Heap(a) = Heap(b)
       \/ ~Initialized(a, l) /\ Heap(NewTwin(a, l)) = Heap(b)
    /\ \A m \in Lists : Observe(a, m) = Observe(b, m)

\* The first push on the zero-value list l made the sentinel ring and put
\* one element in it.
FirstPushOK(h2, l) ==
    /\ Initialized(h2, l)
    /\ WellFormed(h2, l)
    /\ Walk(h2, l) = << h2.ret >>
    /\ h2.next[Root(l)] = h2.ret /\ h2.prev[Root(l)] = h2.ret
    /\ h2.next[h2.ret] = Root(l) /\ h2.prev[h2.ret] = Root(l)

\* C14: in every reachable state and for every list l that is still the
\* zero value (never passed to New or Init, never pushed to), Len() is 0 and
\* Front() and Back() are none; PushBack and PushFront make the sentinel
\* ring and put the element in it, PushBackList and PushFrontList leave l
\* an initialized well-formed list; and every public method, called with
\* the same arguments on this heap and on the heap where l came from
\* New(), returns the same, leaves every list observing the same through
\* Len, Front, Back and both value walks, and leaves the two heaps equal or
\* again differing only by l being the zero value.
C14_ZeroValueUsable ==
    \A l \in Lists :
       (~panicked /\ ~Initialized(H, l)) =>
          LET N == NewTwin(H, l)
          IN
          /\ ListLen(H, l) = 0 /\ Front(H, l) = Nil /\ Back(H, l) = Nil
          /\ ZeroEquiv(H, N, l)
          /\ \A m \in Lists : ZeroEquiv(ListInit(H, m), ListInit(N, m), l)
          /\ nalloc < MaxElems =>
                \A v \in Values :
                   /\ FirstPushOK(PushBack(H, l, v), l)
                   /\ FirstPushOK(PushFront(H, l, v), l)
                   /\ \A m \in Lists :
                         /\ ZeroEquiv(PushBack(H, m, v), PushBack(N, m, v), l)
                         /\ ZeroEquiv(PushFront(H, m, v), PushFront(N, m, v), l)
                         /\ \A mark \in Allocated(H) :
                               /\ ZeroEquiv(InsertAfter(H, m, v, mark),
                                            InsertAfter(N, m, v, mark), l)
                               /\ ZeroEquiv(InsertBefore(H, m, v, mark),
                                            InsertBefore(N, m, v, mark), l)
          /\ \A m \in Lists : \A e \in Allocated(H) :
                /\ ZeroEquiv(Remove(H, m, e), Remove(N, m, e), l)
                /\ ZeroEquiv(MoveToFront(H, m, e), MoveToFront(N, m, e), l)
                /\ ZeroEquiv(MoveToBack(H, m, e), MoveToBack(N, m, e), l)
                /\ \A mark \in Allocated(H) :
                      /\ ZeroEquiv(MoveBefore(H, m, e, mark),
                                   MoveBefore(N, m, e, mark), l)
                      /\ ZeroEquiv(MoveAfter(H, m, e, mark),
                                   MoveAfter(N, m, e, mark), l)
          /\ \A m, other \in Lists :
                nalloc + (IF size[other] > 0 THEN size[other] ELSE 0) <= MaxElems =>
                   /\ ZeroEquiv(PushBackList(H, m, other),
                                PushBackList(N, m, other), l)
                   /\ ZeroEquiv(PushFrontList(H, m, other),
                                PushFrontList(N, m, other), l)
                   /\ m = l =>
                         /\ Initialized(PushBackList(H, l, other), l)
                         /\ WellFormed(PushBackList(H, l, other), l)
                         /\ Initialized(PushFrontList(H, l, other), l)
                         /\ WellFormed(PushFrontList(H, l, other), l)

\* A list is still the zero value while the other holds two elements, and
\* a push on it makes a ring of one.
C14_Witness ==
    /\ ~panicked
    /\ nalloc < MaxElems
    /\ \E l, m \in Lists :
          /\ ~Initialized(H, l)
          /\ Len(Walk(H, m)) = 2
          /\ Len(Walk(PushBack(H, l, 1), l)) = 1
          /\ Len(Walk(PushFrontList(H, l, m), l)) = 2


----------------------------------------------------------------------------
(* C15 - Init *)

\* The list l holds exactly the element the push returned.
OnlyElement(h2, l) ==
    /\ ~h2.panic
    /\ ListLen(h2, l) = 1
    /\ Front(h2, l) = h2.ret /\ Back(h2, l) = h2.ret
    /\ h2.ret \in Allocated(h2)
    /\ Walk(h2, l) = << h2.ret >> /\ WalkBack(h2, l) = << h2.ret >>
    /\ ElementNext(h2, h2.ret) = Nil /\ ElementPrev(h2, h2.ret) = Nil
    /\ WellFormed(h2, l)

\* C15: in every reachable state and for every list l, empty or not, after
\* l.Init() the sentinel's prev and next are the sentinel, Len() is 0,
\* Front() and Back() are none and Init has returned l; a PushBack or
\* PushFront that follows leaves its element as both Front() and Back()
\* with Len() 1, as it does on a list fresh from New().
C15_InitResets ==
    \A l \in Lists :
       ~panicked =>
          LET h1 == ListInit(H, l)
          IN  /\ h1.prev[Root(l)] = Root(l)
              /\ h1.next[Root(l)] = Root(l)
              /\ ListLen(h1, l) = 0
              /\ Front(h1, l) = Nil /\ Back(h1, l) = Nil
              /\ Walk(h1, l) = << >> /\ WalkBack(h1, l) = << >>
              /\ h1.ret = l
              /\ ~h1.panic
              /\ WellFormed(h1, l)
              /\ nalloc < MaxElems =>
                    \A v \in Values :
                       /\ OnlyElement(PushBack(h1, l, v), l)
                       /\ PushBack(h1, l, v).Value[PushBack(h1, l, v).ret] = v
                       /\ OnlyElement(PushFront(h1, l, v), l)
                       /\ PushFront(h1, l, v).Value[PushFront(h1, l, v).ret] = v

\* Init has just reset a list that held two elements: they are still owned
\* by it, and its ring is empty.
C15_Witness ==
    /\ op = "Init" /\ path = "done"
    /\ \E l \in Lists :
          /\ ret = l
          /\ Cardinality(Owned(l)) = 2
          /\ Members(H, l) = {}
          /\ size[l] = 0
          /\ nalloc < MaxElems


----------------------------------------------------------------------------
(* C16 - moves to the place already held *)

\* The call returned normally and changed nothing.
Unchanged(h, h2) == ~h2.panic /\ Heap(h2) = Heap(h)

\* MoveBefore(e, e) and MoveAfter(e, e) change nothing, and on a
\* well-formed list neither do MoveBefore(e, mark) with e right before
\* mark in its ring and MoveAfter(e, mark) with e right after mark.
RelativeMovesInPlace ==
    \A l \in Lists : \A e \in Allocated(H) :
       /\ Unchanged(H, MoveBefore(H, l, e, e))
       /\ Unchanged(H, MoveAfter(H, l, e, e))
       /\ \A mark \in Allocated(H) :
             (WellFormed(H, l) /\ e \in Members(H, l) /\ mark \in Members(H, l)
                /\ e # mark) =>
                /\ prev[mark] = e => Unchanged(H, MoveBefore(H, l, e, mark))
                /\ next[mark] = e => Unchanged(H, MoveAfter(H, l, e, mark))

\* C16 as stated: the above, and for every list l MoveToFront(Front()) and
\* MoveToBack(Back()) change nothing.
C16_DegenerateMovesAnyList ==
    ~panicked =>
       /\ RelativeMovesInPlace
       /\ \A l \in Lists :
             /\ Unchanged(H, MoveToFront(H, l, Front(H, l)))
             /\ Unchanged(H, MoveToBack(H, l, Back(H, l)))

\* C16, amended: the above for every list l on which Front() and Back()
\* return an element.
C16_DegenerateMoves ==
    ~panicked =>
       /\ RelativeMovesInPlace
       /\ \A l \in Lists :
             /\ Front(H, l) # Nil => Unchanged(H, MoveToFront(H, l, Front(H, l)))
             /\ Back(H, l) # Nil => Unchanged(H, MoveToBack(H, l, Back(H, l)))

\* MoveBefore found e already in place in a list of three.
C16_Witness ==
    /\ op = "MoveBefore" /\ path = "noop" /\ ~misused
    /\ \E l \in Lists : Len(Walk(H, l)) = 3


----------------------------------------------------------------------------
(* C17 - single ownership *)

\* The lists whose sentinel reaches e.
RingsOf(h, e) == {l \in Lists : e \in Members(h, l)}

\* C17: in every reachable state, calls with left-behind and cross-list
\* handles included, no element is reachable from the sentinels of two
\* lists, and every node reachable from the sentinel of a list l is an
\* allocated element whose list is l: none owned by another list has been
\* linked into l's ring.
C17_SingleOwnership ==
    /\ \A e \in Elems : Cardinality(RingsOf(H, e)) <= 1
    /\ \A l \in Lists : \A n \in Members(H, l) :
          n \in Allocated(H) /\ list[n] = l

\* A call with a left-behind handle has been made, both lists hold
\* elements, and MoveBefore has just refused a pair of handles.
C17_Witness ==
    /\ misused
    /\ op = "MoveBefore" /\ path = "guard"
    /\ \A l \in Lists : Members(H, l) # {}


----------------------------------------------------------------------------
(* C18 - the sentinel stays hidden *)

\* Element.Next and Element.Prev of every element, and the element returned
\* by the last PushFront, PushBack, InsertBefore or InsertAfter, are not a
\* sentinel.
NoRootFromElements ==
    /\ \A e \in Allocated(H) :
          ElementNext(H, e) \notin Lists /\ ElementPrev(H, e) \notin Lists
    /\ op \in {"PushFront", "PushBack", "InsertBefore", "InsertAfter"} =>
          ret \notin Lists

\* Front and Back of every list are not a sentinel; Front().Prev() and
\* Back().Next() are none; a list whose ring holds no element has Front
\* and Back none.
NoRootFromLists ==
    \A l \in Lists :
       /\ Front(H, l) \notin Lists /\ Back(H, l) \notin Lists
       /\ Front(H, l) \in Allocated(H) => ElementPrev(H, Front(H, l)) = Nil
       /\ Back(H, l) \in Allocated(H) => ElementNext(H, Back(H, l)) = Nil
       /\ Members(H, l) = {} => Front(H, l) = Nil /\ Back(H, l) = Nil

\* C18 as stated: after any sequence of calls, calls with handles returned
\* before an Init included, nothing that returns an element returns a
\* sentinel.
C18_SentinelHiddenAnyHandles == NoRootFromElements /\ NoRootFromLists

\* C18, amended: Next, Prev and the inserting methods never return a
\* sentinel; Front and Back never do, with none at the boundaries and on
\* the empty list, as long as no handle left behind by Init was passed to
\* a call.
C18_SentinelHidden ==
    /\ NoRootFromElements
    /\ ~misused => NoRootFromLists

\* After an Init that left elements behind, and with none of them used,
\* InsertBefore has put an element in front of a list that now holds two.
C18_Witness ==
    /\ ~misused /\ discarded # {}
    /\ op = "InsertBefore" /\ path = "done"
    /\ \E l \in Lists : Len(Walk(H, l)) = 2 /\ Front(H, l) = ret


----------------------------------------------------------------------------
(* C19 - Init leaves the elements as they were *)

\* In h1 the element e passes the membership guard of every method of l
\* that has one.
PassesGuards(h1, l, e) ==
    /\ Remove(h1, l, e).path # "guard"
    /\ MoveToFront(h1, l, e).path # "guard"
    /\ MoveToBack(h1, l, e).path # "guard"
    /\ MoveBefore(h1, l, e, e).path # "guard"
    /\ MoveAfter(h1, l, e, e).path # "guard"
    /\ h1.nalloc < MaxElems =>
          \A v \in Values :
             /\ InsertAfter(h1, l, v, e).path # "guard"
             /\ InsertBefore(h1, l, v, e).path # "guard"

\* C19: in every reachable state and for every list l, l.Init() leaves
\* the list, prev, next and Value of every element as they were; each
\* element that was in l's ring is afterwards not reachable from l's
\* sentinel, still has list = l, and passes the membership guard of
\* Remove, MoveToFront, MoveToBack, MoveBefore, MoveAfter, InsertAfter and
\* InsertBefore on l.
C19_InitKeepsBackReferences ==
    \A l \in Lists :
       ~panicked =>
          LET h1 == ListInit(H, l)
          IN  /\ \A e \in Elems :
                    /\ h1.list[e] = list[e]
                    /\ h1.prev[e] = prev[e]
                    /\ h1.next[e] = next[e]
                    /\ h1.Value[e] = Value[e]
              /\ Members(h1, l) = {}
              /\ \A e \in Members(H, l) :
                    /\ h1.list[e] = l
                    /\ PassesGuards(h1, l, e)
                    /\ \A f \in Members(H, l) :
                          /\ MoveBefore(h1, l, e, f).path # "guard"
                          /\ MoveAfter(h1, l, e, f).path # "guard"

\* Init has just reset a list that held three elements: the ring is empty
\* and the three are still linked to each other and owned by the list.
C19_Witness ==
    /\ op = "Init" /\ path = "done" /\ ~misused
    /\ \E l \in Lists :
          /\ ret = l
          /\ Members(H, l) = {}
          /\ Cardinality(Owned(l)) = 3
          /\ \A e \in Owned(l) : prev[e] # Nil /\ next[e] # Nil /\ e \in discarded


----------------------------------------------------------------------------
(* C20 - Len is not negative *)

\* C20 as stated: in every reachable state, states reached by Remove,
\* Move* or Insert* on handles obtained before an Init included, Len() of
\* every list is at least 0.
C20_LenNonNegativeAnyHandles == \A l \in Lists : ListLen(H, l) >= 0

\* C20, amended: Len() of every list is at least 0 as long as no handle
\* left behind by Init was passed to a call.
C20_LenNonNegative == ~misused => \A l \in Lists : ListLen(H, l) >= 0

\* After an Init that left elements behind, and with none of them used,
\* Remove has taken the last element out of a list: every Len() is 0.
C20_Witness ==
    /\ ~misused /\ discarded # {}
    /\ op = "Remove" /\ path = "done"
    /\ nalloc >= 2
    /\ \A l \in Lists : ListLen(H, l) = 0

====
